---- MODULE Spec2Model ----
(***************************************************************************)
(* A model of src/algorithms/synteny.py: the single-linkage scan           *)
(* (synteny_scan), the segment sweep (get_segments, write_PAD_bed), the    *)
(* PAD scorer (cluster) and the liftover pipeline (read_blast,             *)
(* read_anchors, group_hits, synteny_liftover, liftover).                  *)
(***************************************************************************)
EXTENDS Integers, Sequences, FiniteSets, TLC

VARIABLES
    \* ---- synteny_scan ----
    points,      \* the list handed to synteny_scan, in the caller's order
    xdist, ydist, N,
    clusters,    \* what the last call of synteny_scan returned
    first,       \* what the first call returned, before any reordering
    scan_pc,
    \* ---- get_segments, write_PAD_bed ----
    ngenes,      \* len(bed): the genes carry the indices 0 .. ngenes-1
    extra,       \* the scaffold breaks [(first, last), ...] of the bed
    ranges,      \* the candidate ranges [(start, end), ...]
    minsegment,
    pads,        \* list(get_segments(ranges, extra, minsegment))
    padkind,     \* for each emitted segment, the kind of event that emitted it
    labels,      \* write_PAD_bed: for gene i, the cursor j it was written under
    seg_pc,
    \* ---- synteny_liftover ----
    nn_points,   \* the points handed to synteny_liftover
    nn_anchors,  \* the anchors the tree is built on
    nn_dist,
    lifted,      \* the positions (in nn_points) of the points yielded, in order
    nn_pc,
    \* ---- liftover ----
    is_self,
    dist,
    blast_rows,     \* the rows of the blast file: (query, subject)
    anchor_rows,    \* the rows of the anchor file
    filtered_blast, \* read_blast's result
    all_anchors,    \* read_anchors' result: chromosome pair -> [(qi, si), ...]
    out,            \* the lines written, each as the position of its hit in filtered_blast
    lift_pc,
    \* ---- cluster ----
    qsizes, ssizes, \* qbed and sbed: the number of genes of each scaffold, in bed order
    blocks,         \* the anchor file: a list of blocks, each a list of (query, subject)
    minsize,
    hits,           \* the rows of the blast file: (query, subject)
    qpads, spads,   \* the segments of the two genomes
    qlabels, slabels, \* write_PAD_bed: the cursor each gene was written under
    observed,       \* the array of observed counts
    all_dots,
    expected_sum,   \* expected.sum() * S: the sum of all_dots * alen * blen
    cl_pc

scanVars == <<points, xdist, ydist, N, clusters, first, scan_pc>>
segVars == <<ngenes, extra, ranges, minsegment, pads, padkind, labels, seg_pc>>
nnVars == <<nn_points, nn_anchors, nn_dist, lifted, nn_pc>>
liftVars == <<is_self, dist, blast_rows, anchor_rows, filtered_blast, all_anchors, out, lift_pc>>
clVars == <<qsizes, ssizes, blocks, minsize, hits, qpads, spads, qlabels, slabels,
            observed, all_dots, expected_sum, cl_pc>>
vars == <<scanVars, segVars, nnVars, liftVars, clVars>>

\* ------------------------------------------------------------------ bounds
MaxPts == 4      \* longest point list
MaxX == 1        \* x coordinates and xdist are in 0 .. MaxX
MaxGenes == 4    \* most genes of a bed handed to get_segments
MaxRanges == 2   \* most candidate ranges
MaxMinSeg == 2   \* minsegment is in 1 .. MaxMinSeg
MaxNNPoints == 3 \* most points handed to synteny_liftover
MaxNNAnchors == 2 \* most anchors handed to synteny_liftover
MaxDist == 2     \* dist is in 1 .. MaxDist
MaxRows == 2     \* most rows of the blast file
MaxAnchorRows == 2 \* most rows of the anchor file
MaxScaffolds == 2 \* most scaffolds of a bed handed to cluster
MaxBlocks == 1   \* most blocks of the anchor file handed to cluster
MaxBlockLen == 2 \* most rows of an anchor block handed to cluster
MaxHits == 1     \* most rows of the blast file handed to cluster

\* ------------------------------------------------------- program constants
\* def get_segments(ranges, extra, minsegment=40)
DefaultMinSegment == 40

\* ------------------------------------------------------------ small helpers
Abs(v) == IF v < 0 THEN -v ELSE v
Min2(a, b) == IF a <= b THEN a ELSE b
SeqsUpTo(S, n) == UNION {[1..k -> S] : k \in 0..n}
Range(s) == {s[i] : i \in 1..Len(s)}

\* ============================================================ synteny_scan
\* Python's tuple comparison on (x, y)
PointLess(p, q) == p[1] < q[1] \/ (p[1] = q[1] /\ p[2] < q[2])

RECURSIVE InsertSorted(_, _)
InsertSorted(s, p) ==
    IF s = <<>> THEN <<p>>
    ELSE IF PointLess(p, Head(s)) THEN <<p>> \o s
    ELSE <<Head(s)>> \o InsertSorted(Tail(s), p)

RECURSIVE SortList(_)
SortList(s) == IF s = <<>> THEN <<>> ELSE InsertSorted(SortList(Tail(s)), Head(s))

\* points.sort() left out: the list is scanned in the caller's order
SortPointsSkipped(s) == s
\* points.sort()
SortPoints(s) == SortList(s)

\* Grouper.join(a, b): the groups holding a and b become one group
GroupOf(G, a) == IF \E g \in G : a \in g THEN CHOOSE g \in G : a \in g ELSE {a}
Join(G, a, b) == (G \ {GroupOf(G, a), GroupOf(G, b)}) \cup {GroupOf(G, a) \cup GroupOf(G, b)}

\* the x-window test with the bound itself shut out
XBreakOffByOne(del_x, xd) == del_x >= xd
\* if del_x > xdist: break
XBreak(del_x, xd) == del_x > xd

\* for j in xrange(i - 1, -1, -1): ... (1-based here)
RECURSIVE LookBack(_, _, _, _, _, _)
LookBack(pts, i, j, xd, yd, G) ==
    IF j < 1 THEN G
    ELSE IF XBreak(pts[i][1] - pts[j][1], xd) THEN G
    ELSE IF Abs(pts[i][2] - pts[j][2]) > yd THEN LookBack(pts, i, j - 1, xd, yd, G)
    ELSE LookBack(pts, i, j - 1, xd, yd, Join(G, pts[i], pts[j]))

\* for i in xrange(n): ...
RECURSIVE ScanFrom(_, _, _, _, _)
ScanFrom(pts, i, xd, yd, G) ==
    IF i > Len(pts) THEN G
    ELSE ScanFrom(pts, i + 1, xd, yd, LookBack(pts, i, i - 1, xd, yd, G))

\* _score: min(len(set(x)), len(set(y)))
Score(cluster) ==
    Min2(Cardinality({p[1] : p \in cluster}), Cardinality({p[2] : p \in cluster}))

\* synteny_scan: the clusters kept, each as the set of its points
SyntenyScan(pts, xd, yd, n) ==
    {c \in ScanFrom(SortPoints(pts), 1, xd, yd, {}) : Score(c) >= n}

XCoords == 0..MaxX
YCoords == {0, 1}
MinScores == {1, 2}
Points == XCoords \X YCoords

ScanIdle ==
    /\ points = <<>> /\ xdist = 0 /\ ydist = 0 /\ N = 1
    /\ clusters = {} /\ first = {} /\ scan_pc = "idle"

ScanInit ==
    /\ points \in SeqsUpTo(Points, MaxPts)
    /\ xdist \in XCoords
    /\ ydist \in YCoords
    /\ N \in MinScores
    /\ clusters = {}
    /\ first = {}
    /\ scan_pc = "start"

\* the first call
Scan ==
    /\ scan_pc = "start"
    /\ clusters' = SyntenyScan(points, xdist, ydist, N)
    /\ first' = clusters'
    /\ scan_pc' = "scanned"
    /\ UNCHANGED <<points, xdist, ydist, N>>
    /\ UNCHANGED <<segVars, nnVars, liftVars, clVars>>

SwapAt(s, i) == [k \in 1..Len(s) |-> IF k = i THEN s[i + 1] ELSE IF k = i + 1 THEN s[i] ELSE s[k]]

\* the same points handed over in another order (one adjacent swap further)
\* and scanned again
Rescan ==
    /\ scan_pc = "scanned"
    /\ \E i \in 1..(Len(points) - 1) :
          /\ points' = SwapAt(points, i)
          /\ clusters' = SyntenyScan(points', xdist, ydist, N)
    /\ UNCHANGED <<xdist, ydist, N, first, scan_pc>>
    /\ UNCHANGED <<segVars, nnVars, liftVars, clVars>>


\* ===================================================== get_segments
NUL == -1
\* jcvi.utils.range: LEFT, RIGHT = 0, 1
LEFT == 0
RIGHT == 1

RECURSIVE SetToSeq(_)
\* a finite set of integers as an ascending list
SetToSeq(S) ==
    IF S = {} THEN <<>>
    ELSE LET m == CHOOSE v \in S : \A w \in S : v <= w
         IN <<m>> \o SetToSeq(S \ {m})

\* Bed.get_breaks (without the seqid): for each scaffold, in bed order, the
\* index of its first and of its last gene. B holds the indices at which a
\* new scaffold starts.
GetBreaks(n, B) ==
    LET starts == SetToSeq({0} \cup B)
    IN [k \in 1..Len(starts) |->
          <<starts[k], IF k = Len(starts) THEN n - 1 ELSE starts[k + 1] - 1>>]

\* Range(seqid, start, end, score, id) with score = end - start
Weight(r) == r[2] - r[1]
Overlap(r, t) == ~(r[2] < t[1] \/ t[2] < r[1])

RECURSIVE TotalWeight(_, _)
TotalWeight(rs, I) ==
    IF I = {} THEN 0
    ELSE LET i == CHOOSE v \in I : TRUE
         IN Weight(rs[i]) + TotalWeight(rs, I \ {i})

Chains(rs) ==
    {I \in SUBSET (1..Len(rs)) : \A i \in I : \A j \in I \ {i} : ~Overlap(rs[i], rs[j])}

\* range_chain: the sets of mutually non-overlapping ranges of the highest
\* total weight (each a possible "selected"); a range of weight 0 betters no
\* sum and is not taken
RangeChain(rs) ==
    {I \in Chains(rs) :
        /\ \A J \in Chains(rs) : TotalWeight(rs, J) <= TotalWeight(rs, I)
        /\ \A i \in I : Weight(rs[i]) > 0}

\* endpoints, sorted
Endpoints(rs, I, ex) ==
    SortList([k \in 1..Len(SetToSeq(I)) |-> <<rs[SetToSeq(I)[k]][1], NUL>>]
             \o [k \in 1..Len(ex) |-> <<ex[k][1], LEFT>>]
             \o [k \in 1..Len(ex) |-> <<ex[k][2], RIGHT>>])

\* the span measured one gene too long
TooShortInclusive(a, current_left, minseg) == a - current_left + 1 < minseg
\* if a - current_left < minsegment: continue
TooShort(a, current_left, minseg) == a - current_left < minseg

\* one pass of the loop body over the event (a, ai)
SweepStep(st, ev, minseg) ==
    LET a == ev[1]
        ai == ev[2]
        cl == IF ai = LEFT THEN a ELSE st.current_left
    IN IF ai = RIGHT
       THEN [current_left |-> cl,
             out |-> Append(st.out, <<cl, a>>), kind |-> Append(st.kind, RIGHT)]
       ELSE IF ai = NUL
       THEN IF TooShort(a, cl, minseg)
            THEN [st EXCEPT !.current_left = cl]
            ELSE [current_left |-> a,
                  out |-> Append(st.out, <<cl, a - 1>>), kind |-> Append(st.kind, NUL)]
       ELSE [st EXCEPT !.current_left = cl]

RECURSIVE Sweep(_, _, _, _)
Sweep(st, evs, k, minseg) ==
    IF k > Len(evs) THEN st
    ELSE Sweep(SweepStep(st, evs[k], minseg), evs, k + 1, minseg)

\* get_segments with the chain I selected: the segments in emission order
\* (out) and the kind of event that emitted each (kind)
GetSegments(rs, I, ex, minseg) ==
    Sweep([current_left |-> 0, out |-> <<>>, kind |-> <<>>],
          Endpoints(rs, I, ex), 1, minseg)

\* write_PAD_bed's loop over the genes i .. n-1 with the cursor at j (1-based);
\* "IndexError" when pads[j] does not exist
RECURSIVE WritePad(_, _, _, _, _)
WritePad(ps, n, i, j, ls) ==
    IF i >= n THEN [err |-> "none", labels |-> ls]
    ELSE IF j > Len(ps) THEN [err |-> "IndexError", labels |-> ls]
    ELSE IF i > ps[j][2]
         THEN IF j + 1 > Len(ps) THEN [err |-> "IndexError", labels |-> ls]
              ELSE WritePad(ps, n, i + 1, j + 1, Append(ls, j + 1))
         ELSE WritePad(ps, n, i + 1, j, Append(ls, j))

WritePadBed(ps, n) == WritePad(ps, n, 0, 1, <<>>)

SegIdle ==
    /\ ngenes = 0 /\ extra = <<>> /\ ranges = <<>> /\ minsegment = 1
    /\ pads = <<>> /\ padkind = <<>> /\ labels = <<>> /\ seg_pc = "idle"

SegInit ==
    /\ ngenes \in 1..MaxGenes
    /\ \E B \in SUBSET (1..(ngenes - 1)) : extra = GetBreaks(ngenes, B)
    /\ ranges \in SeqsUpTo({r \in (0..(ngenes - 1)) \X (0..(ngenes - 1)) : r[1] <= r[2]},
                           MaxRanges)
    /\ minsegment \in 1..MaxMinSeg
    /\ pads = <<>> /\ padkind = <<>> /\ labels = <<>>
    /\ seg_pc = "start"

\* pads = list(get_segments(ranges, extra, minsegment))
Segment ==
    /\ seg_pc = "start"
    /\ \E I \in RangeChain(ranges) :
          LET st == GetSegments(ranges, I, extra, minsegment)
          IN pads' = st.out /\ padkind' = st.kind
    /\ seg_pc' = "segmented"
    /\ UNCHANGED <<ngenes, extra, ranges, minsegment, labels>>
    /\ UNCHANGED <<scanVars, nnVars, liftVars, clVars>>

\* write_PAD_bed(bedfile, prefix, pads, bed)
WriteBed ==
    /\ seg_pc = "segmented"
    /\ LET w == WritePadBed(pads, ngenes)
       IN /\ labels' = w.labels
          /\ seg_pc' = IF w.err = "none" THEN "written" ELSE w.err
    /\ UNCHANGED <<ngenes, extra, ranges, minsegment, pads, padkind>>
    /\ UNCHANGED <<scanVars, nnVars, liftVars, clVars>>


\* ===================================================== synteny_liftover
L1(p, q) == Abs(p[1] - q[1]) + Abs(p[2] - q[2])

\* cKDTree.query(..., distance_upper_bound=dist) finds a neighbour at distance
\* d only if d < dist
WithinUpperBound(d, bound) == d < bound

\* tree.query(ppoints, p=1, distance_upper_bound=dist): idx # tree.n for a
\* point iff its nearest anchor is found within the bound
NeighbourFound(p, anchors, bound) ==
    \E k \in 1..Len(anchors) :
        /\ \A m \in 1..Len(anchors) : L1(p, anchors[k]) <= L1(p, anchors[m])
        /\ WithinUpperBound(L1(p, anchors[k]), bound)

RECURSIVE LiftFrom(_, _, _, _)
\* for point, dist, idx in zip(points, dists, idxs): the positions yielded
LiftFrom(pts, anchors, bound, k) ==
    IF k > Len(pts) THEN <<>>
    ELSE IF ~NeighbourFound(pts[k], anchors, bound)
         THEN LiftFrom(pts, anchors, bound, k + 1)
         ELSE <<k>> \o LiftFrom(pts, anchors, bound, k + 1)

SyntenyLiftover(pts, anchors, bound) == LiftFrom(pts, anchors, bound, 1)

NNCoords == {0, 1, 2}
NNPoints == NNCoords \X NNCoords

NNIdle ==
    /\ nn_points = <<>> /\ nn_anchors = <<>> /\ nn_dist = 0 /\ lifted = <<>>
    /\ nn_pc = "idle"

NNInit ==
    /\ nn_points \in SeqsUpTo(NNPoints, MaxNNPoints)
    /\ nn_anchors \in SeqsUpTo(NNPoints, MaxNNAnchors) \ {<<>>}
    /\ nn_dist \in 1..MaxDist
    /\ lifted = <<>>
    /\ nn_pc = "start"

\* list(synteny_liftover(points, anchors, dist))
Nearest ==
    /\ nn_pc = "start"
    /\ lifted' = SyntenyLiftover(nn_points, nn_anchors, nn_dist)
    /\ nn_pc' = "done"
    /\ UNCHANGED <<nn_points, nn_anchors, nn_dist>>
    /\ UNCHANGED <<scanVars, segVars, liftVars, clVars>>

\* ============================================================== liftover
\* The bed of the liftover runs: gene i (accession i) lies on scaffold
\* BedSeqids[i + 1]; qbed and sbed have this shape. The accession
\* Len(BedSeqids) is in no bed.
BedSeqids == <<1, 1, 2>>
Genes == 0..(Len(BedSeqids) - 1)
Seqid(i) == BedSeqids[i + 1]

\* read_blast: row k of the file, after the rows before it gave the hits fb
\* and the keys seen
RECURSIVE ReadBlastFrom(_, _, _, _, _)
ReadBlastFrom(rows, self, k, seen, fb) ==
    IF k > Len(rows) THEN fb
    ELSE LET query == rows[k][1]
             subject == rows[k][2]
         IN IF query \notin Genes \/ subject \notin Genes
            THEN ReadBlastFrom(rows, self, k + 1, seen, fb)
            ELSE IF <<query, subject>> \in seen
            THEN ReadBlastFrom(rows, self, k + 1, seen, fb)
            ELSE LET swap == self /\ query > subject
                     qi == IF swap THEN subject ELSE query
                     si == IF swap THEN query ELSE subject
                 IN ReadBlastFrom(rows, self, k + 1, seen \cup {<<query, subject>>},
                       Append(fb, [qi |-> qi, si |-> si,
                                   qseqid |-> Seqid(qi), sseqid |-> Seqid(si),
                                   row |-> k]))

ReadBlast(rows, self) == ReadBlastFrom(rows, self, 1, {}, <<>>)

AddTo(f, key, v) ==
    IF key \in DOMAIN f THEN [f EXCEPT ![key] = Append(@, v)] ELSE f @@ (key :> <<v>>)

RECURSIVE GroupHitsFrom(_, _, _)
GroupHitsFrom(fb, k, f) ==
    IF k > Len(fb) THEN f
    ELSE GroupHitsFrom(fb, k + 1, AddTo(f, <<fb[k].qseqid, fb[k].sseqid>>, k))

\* group_hits: chromosome pair -> the hits of the pair, in the order of
\* blasts, each as its position in blasts
GroupHits(fb) == GroupHitsFrom(fb, 1, <<>>)

RECURSIVE ReadAnchorsFrom(_, _, _)
ReadAnchorsFrom(rows, k, f) ==
    IF k > Len(rows) THEN f
    ELSE IF rows[k].comment THEN ReadAnchorsFrom(rows, k + 1, f)
    ELSE IF rows[k].a \notin Genes \/ rows[k].b \notin Genes
         THEN ReadAnchorsFrom(rows, k + 1, f)
    ELSE ReadAnchorsFrom(rows, k + 1,
            AddTo(f, <<Seqid(rows[k].a), Seqid(rows[k].b)>>, <<rows[k].a, rows[k].b>>))

\* read_anchors: chromosome pair -> [(qi, si), ...]
ReadAnchors(rows) == ReadAnchorsFrom(rows, 1, <<>>)

RECURSIVE KeysDescending(_)
\* the keys from the largest down
KeysDescending(S) ==
    IF S = {} THEN <<>>
    ELSE LET m == CHOOSE v \in S : \A w \in S \ {v} : PointLess(w, v)
         IN <<m>> \o KeysDescending(S \ {m})

RECURSIVE SortedKeys(_)
\* sorted(all_anchors.keys())
SortedKeys(S) ==
    IF S = {} THEN <<>>
    ELSE LET m == CHOOSE v \in S : \A w \in S \ {v} : PointLess(v, w)
         IN <<m>> \o SortedKeys(S \ {m})

\* all_hits[chr_pair] of a defaultdict(list)
HitsOf(all_hits, key) == IF key \in DOMAIN all_hits THEN all_hits[key] ELSE <<>>

RECURSIVE LiftLoopFrom(_, _, _, _, _, _)
\* for chr_pair in sorted(all_anchors.keys()): ... the lines written
LiftLoopFrom(keys, k, fb, all_hits, anchors, bound) ==
    IF k > Len(keys) THEN <<>>
    ELSE LET hs == HitsOf(all_hits, keys[k])
             pts == [m \in 1..Len(hs) |-> <<fb[hs[m]].qi, fb[hs[m]].si>>]
             got == IF Len(hs) = 0 THEN <<>>
                    ELSE SyntenyLiftover(pts, anchors[keys[k]], bound)
         IN [m \in 1..Len(got) |-> hs[got[m]]]
            \o LiftLoopFrom(keys, k + 1, fb, all_hits, anchors, bound)

\* The rows the blast file is drawn from: three gene pairs of the scaffold
\* pair (1, 1), one of (1, 2), one of (2, 2), and two rows that name an
\* accession that is in no bed.
BlastRows ==
    {<<0, 0>>, <<0, 1>>, <<1, 0>>, <<0, 2>>, <<2, 2>>,
     <<Len(BedSeqids), 0>>, <<0, Len(BedSeqids)>>}

\* The rows the anchor file is drawn from: a comment line, anchors of the
\* scaffold pairs (1, 1), (1, 2) and (2, 2), and a row that names an accession
\* that is in no bed.
AnchorRows ==
    {[comment |-> TRUE, a |-> 0, b |-> 0]}
    \cup {[comment |-> FALSE, a |-> r[1], b |-> r[2]] :
            r \in {<<0, 0>>, <<1, 1>>, <<0, 2>>, <<2, 2>>, <<0, Len(BedSeqids)>>}}

LiftIdle ==
    /\ is_self = FALSE /\ dist = 0 /\ blast_rows = <<>> /\ anchor_rows = <<>>
    /\ filtered_blast = <<>> /\ all_anchors = <<>> /\ out = <<>>
    /\ lift_pc = "idle"

LiftInit ==
    /\ is_self \in BOOLEAN
    /\ dist \in 1..MaxDist
    /\ blast_rows \in SeqsUpTo(BlastRows, MaxRows)
    /\ anchor_rows \in SeqsUpTo(AnchorRows, MaxAnchorRows)
    /\ filtered_blast = <<>> /\ all_anchors = <<>> /\ out = <<>>
    /\ lift_pc = "start"

\* liftover, lines 540-542
ReadFiles ==
    /\ lift_pc = "start"
    /\ filtered_blast' = ReadBlast(blast_rows, is_self)
    /\ all_anchors' = ReadAnchors(anchor_rows)
    /\ lift_pc' = "read"
    /\ UNCHANGED <<is_self, dist, blast_rows, anchor_rows, out>>
    /\ UNCHANGED <<scanVars, segVars, nnVars, clVars>>

\* liftover, lines 545-559
LiftLoop ==
    /\ lift_pc = "read"
    /\ out' = LiftLoopFrom(SortedKeys(DOMAIN all_anchors), 1, filtered_blast,
                           GroupHits(filtered_blast), all_anchors, dist)
    /\ lift_pc' = "done"
    /\ UNCHANGED <<is_self, dist, blast_rows, anchor_rows, filtered_blast, all_anchors>>
    /\ UNCHANGED <<scanVars, segVars, nnVars, clVars>>

\* =============================================================== cluster
RECURSIVE SumSeq(_)
SumSeq(q) == IF q = <<>> THEN 0 ELSE Head(q) + SumSeq(Tail(q))

\* len(bed)
BedLen(sizes) == SumSeq(sizes)
\* the indices at which the scaffolds after the first start
ScaffoldStarts(sizes) == {SumSeq(SubSeq(sizes, 1, k)) : k \in 1..(Len(sizes) - 1)}
\* [x[1:] for x in bed.get_breaks()]
BedBreaks(sizes) == GetBreaks(BedLen(sizes), ScaffoldStarts(sizes))

SeqMin(q) == CHOOSE v \in Range(q) : \A w \in Range(q) : v <= w
SeqMax(q) == CHOOSE v \in Range(q) : \A w \in Range(q) : v >= w

\* AnchorFile.iter_blocks(minsize): the blocks of at least minsize rows
IterBlocks(bs, ms) == SelectSeq(bs, LAMBDA b : Len(b) >= ms)

\* qorder[x] for every x of a block column: a KeyError when x is in no bed
BlocksKnown(bs, nq, ns) ==
    \A k \in 1..Len(bs) : \A m \in 1..Len(bs[k]) :
        bs[k][m][1] \in 0..(nq - 1) /\ bs[k][m][2] \in 0..(ns - 1)

\* qranges / sranges (col = 1 / 2): (min, max) of the block's column
BlockRanges(bs, col) ==
    [k \in 1..Len(bs) |->
        <<SeqMin([m \in 1..Len(bs[k]) |-> bs[k][m][col]]),
          SeqMax([m \in 1..Len(bs[k]) |-> bs[k][m][col]])>>]

\* padnames[j]: "{prefix}:{a:05d}-{b:05d}", one name per pair (a, b)
PadName(ps, j) == ps[j]
\* qpadid = dict((a, i) for i, a in enumerate(qpadnames)): the last position
\* that carries the name
PadId(ps, name) ==
    CHOOSE j \in 1..Len(ps) : ps[j] = name /\ \A m \in (j + 1)..Len(ps) : ps[m] # name
\* qpadlen[name]: the number of rows of the pad bed under the name
PadLen(ps, ls, name) == Cardinality({i \in 1..Len(ls) : PadName(ps, ls[i]) = name})
\* the names under which the pad bed has rows
PadNamesWritten(ps, ls) == {PadName(ps, ls[i]) : i \in 1..Len(ls)}

\* the cell of the hit (query, subject): qpadid[q.seqid], spadid[s.seqid]
Cell(qp, ql, sp, sl, h) ==
    <<PadId(qp, PadName(qp, ql[h[1] + 1])), PadId(sp, PadName(sp, sl[h[2] + 1]))>>

RECURSIVE ObservedFrom(_, _, _, _, _, _, _)
\* for row in fp: observed[qsi, ssi] += 1
ObservedFrom(qp, ql, sp, sl, hs, k, obs) ==
    IF k > Len(hs) THEN obs
    ELSE ObservedFrom(qp, ql, sp, sl, hs, k + 1,
            [obs EXCEPT ![Cell(qp, ql, sp, sl, hs[k])] = @ + 1])

RECURSIVE SumOver(_, _)
SumOver(f, D) ==
    IF D = {} THEN 0
    ELSE LET c == CHOOSE v \in D : TRUE IN f[c] + SumOver(f, D \ {c})

\* expected[i, j] * S = all_dots * alen * blen
ExpectedTimesS(qp, ql, sp, sl, dots) ==
    [c \in (1..Len(qp)) \X (1..Len(sp)) |->
        dots * PadLen(qp, ql, PadName(qp, c[1])) * PadLen(sp, sl, PadName(sp, c[2]))]

\* int(round(t / s)) for t >= 0, s > 0
RoundDiv(t, s) == (2 * t + s) \div (2 * s)

Layouts == SeqsUpTo({1, 2, DefaultMinSegment}, MaxScaffolds) \ {<<>>}
SmallLayouts == {<<1>>, <<2>>, <<1, 1>>}
\* the accessions the files name: the first and the last gene of each
\* scaffold, and BedLen(sizes), which is in no bed
AccnsOf(sizes) ==
    {b[1] : b \in Range(BedBreaks(sizes))} \cup {b[2] : b \in Range(BedBreaks(sizes))}
    \cup {BedLen(sizes)}
MinSizes == {1, 2}

ClIdle ==
    /\ qsizes = <<>> /\ ssizes = <<>> /\ blocks = <<>> /\ minsize = 1 /\ hits = <<>>
    /\ qpads = <<>> /\ spads = <<>> /\ qlabels = <<>> /\ slabels = <<>>
    /\ observed = <<>> /\ all_dots = 0 /\ expected_sum = 0 /\ cl_pc = "idle"

ClInit ==
    /\ qsizes \in Layouts
    /\ ssizes \in SmallLayouts
    /\ blocks \in SeqsUpTo(SeqsUpTo(AccnsOf(qsizes) \X AccnsOf(ssizes), MaxBlockLen) \ {<<>>},
                         MaxBlocks)
    /\ minsize \in MinSizes
    /\ hits \in SeqsUpTo(AccnsOf(qsizes) \X AccnsOf(ssizes), MaxHits)
    /\ qpads = <<>> /\ spads = <<>> /\ qlabels = <<>> /\ slabels = <<>>
    /\ observed = <<>> /\ all_dots = 0 /\ expected_sum = 0
    /\ cl_pc = "start"

\* cluster, lines 313-348: the anchor blocks, the segments, the pad beds
Partition ==
    /\ cl_pc = "start"
    /\ LET bs == IterBlocks(blocks, minsize)
           nq == BedLen(qsizes)
           ns == BedLen(ssizes)
       IN IF ~BlocksKnown(bs, nq, ns)
          THEN /\ cl_pc' = "KeyError_anchor"
               /\ UNCHANGED <<qpads, spads, qlabels, slabels>>
          ELSE \E I \in RangeChain(BlockRanges(bs, 1)) : \E J \in RangeChain(BlockRanges(bs, 2)) :
                 LET qp == GetSegments(BlockRanges(bs, 1), I, BedBreaks(qsizes), DefaultMinSegment).out
                     sp == GetSegments(BlockRanges(bs, 2), J, BedBreaks(ssizes), DefaultMinSegment).out
                     qw == WritePadBed(qp, nq)
                     sw == WritePadBed(sp, ns)
                 IN /\ qpads' = qp /\ spads' = sp
                    /\ qlabels' = qw.labels /\ slabels' = sw.labels
                    /\ cl_pc' = IF qw.err # "none" THEN qw.err
                                ELSE IF sw.err # "none" THEN sw.err ELSE "partitioned"
    /\ UNCHANGED <<qsizes, ssizes, blocks, minsize, hits, observed, all_dots, expected_sum>>
    /\ UNCHANGED <<scanVars, segVars, nnVars, liftVars>>

\* cluster, lines 350-364: the observed counts and their check
CountObserved ==
    /\ cl_pc = "partitioned"
    /\ IF \E k \in 1..Len(hits) :
             hits[k][1] \notin 0..(BedLen(qsizes) - 1) \/ hits[k][2] \notin 0..(BedLen(ssizes) - 1)
       THEN /\ cl_pc' = "KeyError_hit"
            /\ UNCHANGED <<observed, all_dots>>
       ELSE LET obs == ObservedFrom(qpads, qlabels, spads, slabels, hits, 1,
                          [c \in (1..Len(qpads)) \X (1..Len(spads)) |-> 0])
            IN /\ observed' = obs
               /\ all_dots' = Len(hits)
               /\ cl_pc' = IF SumOver(obs, DOMAIN obs) = Len(hits)
                           THEN "counted" ELSE "AssertionError_observed"
    /\ UNCHANGED <<qsizes, ssizes, blocks, minsize, hits, qpads, spads, qlabels, slabels,
                   expected_sum>>
    /\ UNCHANGED <<scanVars, segVars, nnVars, liftVars>>

\* cluster, lines 366-374: the expected counts and their check
CheckExpected ==
    /\ cl_pc = "counted"
    /\ IF \/ \E j \in 1..Len(qpads) : PadName(qpads, j) \notin PadNamesWritten(qpads, qlabels)
          \/ \E j \in 1..Len(spads) : PadName(spads, j) \notin PadNamesWritten(spads, slabels)
       THEN /\ cl_pc' = "KeyError_padlen"
            /\ UNCHANGED expected_sum
       ELSE LET e == ExpectedTimesS(qpads, qlabels, spads, slabels, all_dots)
                t == SumOver(e, DOMAIN e)
            IN /\ expected_sum' = t
               /\ cl_pc' = IF RoundDiv(t, BedLen(qsizes) * BedLen(ssizes)) = all_dots
                           THEN "checked" ELSE "AssertionError_expected"
    /\ UNCHANGED <<qsizes, ssizes, blocks, minsize, hits, qpads, spads, qlabels, slabels,
                   observed, all_dots>>
    /\ UNCHANGED <<scanVars, segVars, nnVars, liftVars>>

\* ======================================================= specifications
ScanNext == Scan \/ Rescan
SegNext == Segment \/ WriteBed
NNNext == Nearest
LiftNext == ReadFiles \/ LiftLoop
ClNext == Partition \/ CountObserved \/ CheckExpected

InitScan == ScanInit /\ SegIdle /\ NNIdle /\ LiftIdle /\ ClIdle
InitSeg == ScanIdle /\ SegInit /\ NNIdle /\ LiftIdle /\ ClIdle
InitNearest == ScanIdle /\ SegIdle /\ NNInit /\ LiftIdle /\ ClIdle
InitLiftover == ScanIdle /\ SegIdle /\ NNIdle /\ LiftInit /\ ClIdle
InitCluster == ScanIdle /\ SegIdle /\ NNIdle /\ LiftIdle /\ ClInit

SpecScan == InitScan /\ [][ScanNext]_vars
SpecSeg == InitSeg /\ [][SegNext]_vars
SpecNearest == InitNearest /\ [][NNNext]_vars
SpecLiftover == InitLiftover /\ [][LiftNext]_vars
SpecCluster == InitCluster /\ [][ClNext]_vars

\* C3: every returned cluster scores at least N, and no two points of two
\* different returned clusters satisfy the join rule
\* (|dx| <= xdist and |dy| <= ydist).
C3_ClustersScoredAndSeparated ==
    scan_pc = "scanned" =>
        /\ \A c \in clusters : Score(c) >= N
        /\ \A c \in clusters : \A d \in clusters \ {c} : \A p \in c : \A q \in d :
              ~(Abs(p[1] - q[1]) <= xdist /\ Abs(p[2] - q[2]) <= ydist)

C3_Witness ==
    /\ scan_pc = "scanned"
    /\ \E c \in clusters : \E d \in clusters \ {c} : \E p \in c : \E q \in d :
          Abs(p[1] - q[1]) <= xdist /\ Abs(p[2] - q[2]) > ydist

\* C4: whatever the order of the input list, synteny_scan returns the same
\* set of clusters.
C4_OrderInvariant == scan_pc = "scanned" => clusters = first

C4_Witness ==
    /\ scan_pc = "scanned"
    /\ points # SortList(points)
    /\ clusters # {}
    /\ \E p \in Range(points) : \A c \in clusters : p \notin c

SegLen(p) == p[2] - p[1] + 1

\* C1: the emitted segments, in emission order, are gap-free and
\* non-overlapping and cover exactly the gene indices 0 .. ngenes-1.
C1_SegmentsPartitionGenome ==
    seg_pc = "segmented" =>
        /\ Len(pads) >= 1
        /\ pads[1][1] = 0
        /\ pads[Len(pads)][2] = ngenes - 1
        /\ \A k \in 1..(Len(pads) - 1) : pads[k + 1][1] = pads[k][2] + 1

\* C2 as stated: no emitted segment, whichever event emitted it, is shorter
\* than minsegment.
C2_NoShortSegment ==
    \A k \in 1..Len(pads) : SegLen(pads[k]) >= minsegment

\* C2 amended: no segment emitted at a selected-range-start event is shorter
\* than minsegment (a segment emitted at a force-right event can be).
C2_NoShortSegmentAtRangeStart ==
    \A k \in 1..Len(pads) : padkind[k] = NUL => SegLen(pads[k]) >= minsegment

C2_Witness ==
    /\ seg_pc = "segmented"
    /\ minsegment >= 2
    /\ \E k \in 1..Len(pads) : padkind[k] = NUL
    /\ \E k \in 1..Len(pads) : padkind[k] = RIGHT /\ SegLen(pads[k]) < minsegment

\* C8: write_PAD_bed never runs past the end of pads, and every gene is
\* written under a segment that contains it.
C8_GenesLabelledByOwnSegment ==
    /\ seg_pc # "IndexError"
    /\ seg_pc = "written" =>
          /\ Len(labels) = ngenes
          /\ \A i \in 0..(ngenes - 1) :
                pads[labels[i + 1]][1] <= i /\ i <= pads[labels[i + 1]][2]


\* C6: synteny_liftover yields exactly the points with some anchor at L1
\* distance <= dist (a point at exactly dist is accepted), in input order.
C6_LiftedWithinDist ==
    nn_pc = "done" =>
        /\ \A k \in 1..Len(nn_points) :
              (k \in Range(lifted)) <=>
                  (\E m \in 1..Len(nn_anchors) : L1(nn_points[k], nn_anchors[m]) <= nn_dist)
        /\ \A k \in 1..(Len(lifted) - 1) : lifted[k] < lifted[k + 1]

\* C7: in self-vs-self mode every hit has qi <= si and no two hits are the
\* same unordered gene pair.
C7_SelfHitsCanonicalUnique ==
    (lift_pc = "read" /\ is_self) =>
        /\ \A k \in 1..Len(filtered_blast) : filtered_blast[k].qi <= filtered_blast[k].si
        /\ \A k \in 1..Len(filtered_blast) : \A m \in 1..Len(filtered_blast) :
              (k # m) =>
                 <<filtered_blast[k].qi, filtered_blast[k].si>>
                    # <<filtered_blast[m].qi, filtered_blast[m].si>>

HitKey(k) == <<filtered_blast[k].qseqid, filtered_blast[k].sseqid>>

\* for each chromosome pair with anchors, the hits synteny_liftover accepts
Accepted ==
    {k \in 1..Len(filtered_blast) :
        /\ HitKey(k) \in DOMAIN all_anchors
        /\ NeighbourFound(<<filtered_blast[k].qi, filtered_blast[k].si>>,
                          all_anchors[HitKey(k)], dist)}

\* C10 as stated: one line per accepted hit, and the lines are in input
\* order, also across chromosome pairs.
C10_LinesInInputOrder ==
    lift_pc = "done" =>
        /\ Range(out) = Accepted
        /\ \A k \in 1..(Len(out) - 1) : out[k] < out[k + 1]

\* C10 amended: one line per accepted hit; the lines are grouped by
\* chromosome pair, the pairs in ascending order, and within one chromosome
\* pair the lines are in input order.
C10_LinesGroupedByPairThenInputOrder ==
    lift_pc = "done" =>
        /\ Range(out) = Accepted
        /\ Len(out) = Cardinality(Accepted)
        /\ \A k \in 1..(Len(out) - 1) :
              \/ PointLess(HitKey(out[k]), HitKey(out[k + 1]))
              \/ (HitKey(out[k]) = HitKey(out[k + 1]) /\ out[k] < out[k + 1])

C10_Witness ==
    /\ lift_pc = "done"
    /\ \E k \in 1..(Len(out) - 1) : out[k] > out[k + 1]


\* C5: in every run of cluster both scorer checks hold, the run does not
\* abort on them, and the observed and the expected counts each sum to the
\* number of hits read.
C5_ScorerChecksHold ==
    /\ cl_pc \notin {"AssertionError_observed", "AssertionError_expected", "KeyError_padlen"}
    /\ cl_pc = "checked" =>
          /\ SumOver(observed, DOMAIN observed) = all_dots
          /\ RoundDiv(expected_sum, BedLen(qsizes) * BedLen(ssizes)) = all_dots

\* C9: a hit or an anchor that names an accession absent from the genome
\* order is skipped; the operation does not fail on it.
C9_AbsentAccessionSkipped ==
    cl_pc \notin {"KeyError_anchor", "KeyError_hit"}

====
